---- MODULE Spec2Model ----
(***************************************************************************)
(* Model of the data-access facade of src/src/tools/api.py and of the      *)
(* provider adapter FutuAPI of src/src/tools/futu_api.py.                  *)
(*                                                                         *)
(* Dates are day numbers 1..MaxDay (ISO dates compare as strings exactly   *)
(* as their day numbers compare).  A ticker is a sequence of characters.   *)
(* The upstream futu service and the cache store are the environment: an   *)
(* upstream request answers nondeterministically (error, no rows, rows).   *)
(***************************************************************************)
EXTENDS Integers, Sequences, FiniteSets, TLC

\* ---------------------------------------------------------------- bounds
MaxDay == 2
MaxCalls == 2
MaxLimit == 2
MaxRows == 2
MaxLen == 4
MaxOps == 4
MaxVal == 3

Days == 1..MaxDay
Limits == 0..MaxLimit
Procs == {1, 2}
SeqProcs == {1}

\* ------------------------------------------------------- sequence helpers
Range(s) == {s[i] : i \in 1..Len(s)}

RECURSIVE SeqsOver(_, _)
\* all sequences over S of length at most n
SeqsOver(S, n) ==
    IF n = 0 THEN {<<>>}
    ELSE LET shorter == SeqsOver(S, n - 1)
         IN  shorter \cup {Append(s, x) : s \in {t \in shorter : Len(t) = n - 1}, x \in S}

Injective(s) == \A i, j \in 1..Len(s) : i # j => s[i] # s[j]

\* Python slice s[:n] for n >= 0
Take(s, n) == SubSeq(s, 1, IF n < Len(s) THEN n ELSE Len(s))

\* Python str.startswith(prefix)
StartsWith(s, prefix) ==
    /\ Len(s) >= Len(prefix)
    /\ SubSeq(s, 1, Len(prefix)) = prefix

\* ------------------------------------------------------ symbol translation
MarketPrefixes == { <<"U", "S", ".">>, <<"H", "K", ".">>, <<"S", "H", ".">>, <<"S", "Z", ".">> }

\* a translation that forgets that "US." is itself a market prefix
ToFutuCodeNoUS(ticker) ==
    IF \E pre \in MarketPrefixes \ { <<"U", "S", ".">> } : StartsWith(ticker, pre)
    THEN ticker
    ELSE <<"U", "S", ".">> \o ticker

\* f"US.{ticker}" if not ticker.startswith(("US.", "HK.", "SH.", "SZ.")) else ticker
ToFutuCode(ticker) ==
    IF \E pre \in MarketPrefixes : StartsWith(ticker, pre)
    THEN ticker
    ELSE <<"U", "S", ".">> \o ticker

Alphabet == {"U", "S", "H", "K", "Z", ".", "A"}

\* the tickers the facade is called with: a bare one and a namespaced one
Tickers == { <<"A">>, <<"U", "S", ".", "A">> }

\* ------------------------------------------------------------ FutuAPI
\* A Python attribute holding None or an upstream context object; an object
\* remembers how many times its close() was invoked.
None == [obj |-> FALSE, closes |-> 0]
NewContext == [obj |-> TRUE, closes |-> 0]
Truthy(x) == x.obj

\* FutuAPI.__init__
FutuAPI == [quote_ctx |-> None, trade_ctx |-> None]

\* a connect() whose except branch also reports success
FutuAPI_connect_AlwaysTrue(self, quote_ok, trade_ok) ==
    IF ~quote_ok THEN [self |-> self, ret |-> TRUE]
    ELSE IF ~trade_ok THEN [self |-> [self EXCEPT !.quote_ctx = NewContext], ret |-> TRUE]
    ELSE [self |-> [quote_ctx |-> NewContext, trade_ctx |-> NewContext], ret |-> TRUE]

\* FutuAPI.connect: quote_ok / trade_ok say whether opening the quote / trade
\* context succeeds; the first failure raises inside the try and yields False,
\* leaving whatever was assigned before it.
FutuAPI_connect(self, quote_ok, trade_ok) ==
    IF ~quote_ok THEN [self |-> self, ret |-> FALSE]
    ELSE IF ~trade_ok THEN [self |-> [self EXCEPT !.quote_ctx = NewContext], ret |-> FALSE]
    ELSE [self |-> [quote_ctx |-> NewContext, trade_ctx |-> NewContext], ret |-> TRUE]

\* the upstream constructor calls connect() makes, with their outcome
ConnectEvents(quote_ok, trade_ok) ==
    << <<"upstream", "OpenQuoteContext", IF quote_ok THEN "opened" ELSE "raised">> >>
    \o (IF quote_ok
        THEN << <<"upstream", "OpenCNTradeContext", IF trade_ok THEN "opened" ELSE "raised">> >>
        ELSE <<>>)

\* number of upstream contexts connect() opens
Opened(quote_ok, trade_ok) == IF ~quote_ok THEN 0 ELSE IF ~trade_ok THEN 1 ELSE 2

\* does a fetch method reach the upstream request (if not self.quote_ctx: return None)
FetchGuard(self) == Truthy(self.quote_ctx)

CloseCtx(ctx) == IF Truthy(ctx) THEN [ctx EXCEPT !.closes = @ + 1] ELSE ctx

\* FutuAPI.close: closes each context that is set; the attributes stay set
FutuAPI_close(self) ==
    [quote_ctx |-> CloseCtx(self.quote_ctx), trade_ctx |-> CloseCtx(self.trade_ctx)]

\* upstream contexts that go from open to closed in close()
Released(self) ==
    (IF Truthy(self.quote_ctx) /\ self.quote_ctx.closes = 0 THEN 1 ELSE 0)
  + (IF Truthy(self.trade_ctx) /\ self.trade_ctx.closes = 0 THEN 1 ELSE 0)

\* upstream close() invocations made by close()
CloseEvents(self) ==
    (IF Truthy(self.quote_ctx) THEN << <<"upstream", "quote_ctx.close", "">> >> ELSE <<>>)
 \o (IF Truthy(self.trade_ctx) THEN << <<"upstream", "trade_ctx.close", "">> >> ELSE <<>>)


\* ------------------------------------------------------------ upstream
\* "YYYY-MM-DD hh:mm:ss" of a daily candle, as <<date, clock>>
TimeKey(d) == <<d, 0>>
\* item["time_key"][:10]
Date10(time_key) == time_key[1]

RECURSIVE AscendingSeq(_)
\* the elements of a finite set of days in ascending order
AscendingSeq(D) ==
    IF D = {} THEN <<>>
    ELSE LET least == CHOOSE d \in D : \A e \in D : d <= e
         IN  <<least>> \o AscendingSeq(D \ {least})

\* an optional value: Python's None is <<>>, a value v is <<v>>
NoValue == <<>>
\* answers of quote_ctx.request_history_kline(code, start, end): an error, or
\* the daily candles of some trading days within [start, end], oldest first
KlineResponses(start, end) ==
    {[ret |-> "RET_ERROR", data |-> <<>>]}
    \cup {[ret |-> "RET_OK",
           data |-> [i \in 1..Len(AscendingSeq(D)) |->
                       [time_key |-> TimeKey(AscendingSeq(D)[i]), open |-> <<1>>]]] :
          D \in SUBSET {d \in Days : start <= d /\ d <= end}}

\* the same answers, and those in which one candle has no open price
KlineAnswers(start, end) ==
    KlineResponses(start, end)
    \cup UNION {{[r EXCEPT !.data[k].open = NoValue] : k \in 1..Len(r.data)} :
                 r \in KlineResponses(start, end)}

\* what an adapter fetch method hands back: None or data.to_dict("records")
NoneResult == [is_none |-> TRUE, records |-> <<>>]
Records(resp) ==
    IF resp.ret = "RET_OK" THEN [is_none |-> FALSE, records |-> resp.data] ELSE NoneResult
\* Python truthiness of an Optional list
Falsy(r) == r.is_none \/ r.records = <<>>

\* ------------------------------------------------------------ state
VARIABLES
    prices_cache,             \* _cache: ticker -> stored price dicts
    financial_metrics_cache,  \* _cache: ticker -> stored metric dicts
    insider_trades_cache,     \* _cache: ticker -> stored insider trade dicts
    company_news_cache,       \* _cache: ticker -> stored company news dicts
    pc,                       \* per process: position in the running facade call
    op,                       \* per process: the facade function being run
    args,                     \* per process: its arguments
    futu,                     \* per process: the local FutuAPI instance
    cached_data,              \* per process: what the cache lookup returned
    fetched,                  \* per process: the records normalized from the fetch
    result,                   \* per process: outcome of the last finished call
    repeat,                   \* per process: the call repeats the one just finished,
                              \*   which had written its fetch back to the cache
    trace,                    \* per process: cache / adapter / upstream events of the call
    calls,                    \* number of facade calls started
    open_ctx,                 \* upstream contexts currently open
    api, api_last, api_ops, api_connected,   \* a FutuAPI instance driven directly
    sym, sym1, sym2, sym_n,   \* symbol translation: input, translated once, twice, count
    sd_a, sd_b, sd_ret, sd_n, \* safe_divide: arguments, returned value, number of calls
    jn_rows, jn_out           \* the metrics join: provider rows, records built from them

storedVars == <<insider_trades_cache, company_news_cache>>
cacheVars == <<prices_cache, financial_metrics_cache, insider_trades_cache, company_news_cache>>
procVars == <<pc, op, args, futu, cached_data, fetched, result, repeat, trace, calls, open_ctx>>
apiVars == <<api, api_last, api_ops, api_connected>>
symVars == <<sym, sym1, sym2, sym_n>>
pureVars == <<sd_a, sd_b, sd_ret, sd_n, jn_rows, jn_out>>
vars == <<prices_cache, financial_metrics_cache, insider_trades_cache, company_news_cache, pc, op, args, futu, cached_data, fetched,
          result, repeat, trace, calls, open_ctx, api, api_last, api_ops, api_connected, sym, sym1, sym2,
          sym_n, sd_a, sd_b, sd_ret, sd_n, jn_rows, jn_out>>

\* the cache store: get_* hands back what is stored for the ticker (nothing
\* stored reads as an empty, falsy value); set_* replaces the stored set wholesale
CacheGet(store, ticker) == store[ticker]
CacheSet(store, ticker, records) == [store EXCEPT ![ticker] = records]

NoArgs == [ticker |-> <<"A">>, start_date |-> 1, end_date |-> 1, limit |-> 0,
           period |-> "ttm", line_items |-> <<>>]
NoResult == [kind |-> "none", value |-> <<>>]

Quiet(p) == pc[p] \in {"idle", "done"}

\* the call returns value v / raises; a get_financial_metrics that get_market_cap
\* called returns into get_market_cap (line 301), while what it raises passes
\* through get_market_cap, which catches nothing
Return(p, v) ==
    /\ pc' = [pc EXCEPT ![p] = IF op[p] = "get_market_cap" THEN "mc_back" ELSE "done"]
    /\ result' = [result EXCEPT ![p] = [kind |-> "return", value |-> v]]
Raise(p) ==
    /\ pc' = [pc EXCEPT ![p] = "done"]
    /\ result' = [result EXCEPT ![p] = [kind |-> "raise", value |-> <<>>]]
Goto(p, where) ==
    /\ pc' = [pc EXCEPT ![p] = where]
    /\ UNCHANGED result
Log(p, events) == trace' = [trace EXCEPT ![p] = @ \o events]

\* the events of a call include a cache write
WroteBack(events) ==
    \E i \in 1..Len(events) :
        events[i][1] = "cache" /\ events[i][2] \in {"set_prices", "set_financial_metrics"}

\* the first position of each facade function
FirstPc(f) ==
    IF f = "get_prices" THEN "gp_cache"
    ELSE IF f \in {"get_financial_metrics", "get_market_cap"} THEN "fm_cache"
    ELSE "li_connect"

\* a facade function is entered with the given arguments, with fresh locals
Begin(p, f, a, again) ==
    /\ calls < MaxCalls
    /\ calls' = calls + 1
    /\ op' = [op EXCEPT ![p] = f]
    /\ args' = [args EXCEPT ![p] = a]
    /\ pc' = [pc EXCEPT ![p] = FirstPc(f)]
    /\ result' = [result EXCEPT ![p] = NoResult]
    /\ repeat' = [repeat EXCEPT ![p] = again]
    /\ trace' = [trace EXCEPT ![p] = <<>>]
    /\ futu' = [futu EXCEPT ![p] = FutuAPI]
    /\ cached_data' = [cached_data EXCEPT ![p] = <<>>]
    /\ fetched' = [fetched EXCEPT ![p] = <<>>]
    /\ UNCHANGED <<open_ctx, cacheVars, apiVars, symVars, pureVars>>

\* the caller makes a call
Enter(p, f, a) ==
    /\ pc[p] = "idle"
    /\ Begin(p, f, a, FALSE)

\* the caller goes on after a finished call: the outcome and the locals of the
\* call are gone, the cache and the upstream contexts stay as the call left them
leave(p) ==
    /\ pc[p] = "done"
    /\ pc' = [pc EXCEPT ![p] = "idle"]
    /\ op' = [op EXCEPT ![p] = "none"]
    /\ args' = [args EXCEPT ![p] = NoArgs]
    /\ result' = [result EXCEPT ![p] = NoResult]
    /\ repeat' = [repeat EXCEPT ![p] = FALSE]
    /\ trace' = [trace EXCEPT ![p] = <<>>]
    /\ futu' = [futu EXCEPT ![p] = FutuAPI]
    /\ cached_data' = [cached_data EXCEPT ![p] = <<>>]
    /\ fetched' = [fetched EXCEPT ![p] = <<>>]
    /\ UNCHANGED <<calls, open_ctx, cacheVars, apiVars, symVars, pureVars>>

\* the caller repeats, with the same arguments, the call that has just returned
\* after writing its fetch back to the cache
call_again(p) ==
    /\ pc[p] = "done"
    /\ result[p].kind = "return"
    /\ WroteBack(trace[p])
    /\ Begin(p, op[p], args[p], TRUE)

\* futu = FutuAPI(); if not futu.connect(): raise Exception(...)
\* (the raise is caught by the enclosing except and re-raised)
ConnectOrRaise(p, next) ==
    \E quote_ok, trade_ok \in BOOLEAN :
        LET c == FutuAPI_connect(FutuAPI, quote_ok, trade_ok)
        IN  /\ futu' = [futu EXCEPT ![p] = c.self]
            /\ open_ctx' = open_ctx + Opened(quote_ok, trade_ok)
            /\ Log(p, << <<"futu", "connect", IF c.ret THEN "True" ELSE "False">> >>
                      \o ConnectEvents(quote_ok, trade_ok))
            /\ IF c.ret THEN Goto(p, next) ELSE Raise(p)
            /\ UNCHANGED <<op, args, cached_data, fetched, repeat, calls, cacheVars, apiVars,
                           symVars, pureVars>>

\* ------------------------------------------------------------ get_prices
\* a filter that accepts the cache only when it covers every requested day
FilterPricesFullCover(cached, start_date, end_date) ==
    IF \A d \in start_date..end_date : \E i \in 1..Len(cached) : cached[i].time = d
    THEN SelectSeq(cached, LAMBDA price : start_date <= price.time /\ price.time <= end_date)
    ELSE <<>>

\* [Price(**price) for price in cached_data if start_date <= price["time"] <= end_date]
FilterPrices(cached, start_date, end_date) ==
    SelectSeq(cached, LAMBDA price : start_date <= price.time /\ price.time <= end_date)

\* float(x) of a cell that holds a number or None: the number, or a TypeError
CanFloat(x) == x # NoValue
Float(x) == x[1]
\* the conversion of lines 48-57 goes through without raising
Convertible(kline_data) == \A i \in 1..Len(kline_data) : CanFloat(kline_data[i].open)

\* a conversion that hands the candles back newest first
ToPricesNewestFirst(kline_data) ==
    [i \in 1..Len(kline_data) |->
        [time |-> Date10(kline_data[Len(kline_data) + 1 - i].time_key),
         open |-> Float(kline_data[Len(kline_data) + 1 - i].open)]]

\* Price(open=..., time=item["time_key"][:10]) for item in kline_data
ToPrices(kline_data) ==
    [i \in 1..Len(kline_data) |->
        [time |-> Date10(kline_data[i].time_key), open |-> Float(kline_data[i].open)]]

call_get_prices(p) ==
    \E t \in Tickers, s, e \in Days :
        Enter(p, "get_prices", [NoArgs EXCEPT !.ticker = t, !.start_date = s, !.end_date = e])

\* what a lookup in the store may do: hand back the stored set, or raise
LookupOutcomes == {"found", "raised"}

\* lines 28-32: the cache lookup and the early return; the lookup stands before
\* the try of line 35, so what it raises leaves get_prices as it is
gp_cache_of(p, outcomes) ==
    /\ pc[p] = "gp_cache"
    /\ \E outcome \in outcomes :
        IF outcome = "raised"
        THEN /\ Log(p, << <<"cache", "get_prices", "raised">> >>)
             /\ Raise(p)
             /\ UNCHANGED cached_data
        ELSE LET cached == CacheGet(prices_cache, args[p].ticker)
                 filtered_data == FilterPrices(cached, args[p].start_date, args[p].end_date)
             IN  /\ cached_data' = [cached_data EXCEPT ![p] = cached]
                 /\ Log(p, << <<"cache", "get_prices", "">> >>)
                 /\ IF cached # <<>> /\ filtered_data # <<>>
                    THEN Return(p, filtered_data)
                    ELSE Goto(p, "gp_connect")
    /\ UNCHANGED <<op, args, futu, fetched, repeat, calls, open_ctx, cacheVars, apiVars, symVars, pureVars>>

\* a get_prices that goes to the provider without looking into the cache
gp_cache_Skip(p) ==
    /\ pc[p] = "gp_cache"
    /\ Goto(p, "gp_connect")
    /\ UNCHANGED <<op, args, futu, cached_data, fetched, repeat, trace, calls, open_ctx,
                   cacheVars, apiVars, symVars, pureVars>>

\* lines 28-32 with a store whose lookup hands back what is stored
gp_cache(p) == gp_cache_of(p, {"found"})

\* lines 36-38
gp_connect(p) ==
    /\ pc[p] = "gp_connect"
    /\ ConnectOrRaise(p, "gp_fetch")

\* lines 41-57: the kline request and the conversion to Price objects, with
\* the provider answering from the given set; a cell that float() rejects
\* raises inside the try, and the except of line 64 raises again
gp_fetch_of(p, responses) ==
    /\ pc[p] = "gp_fetch"
    /\ \E resp \in responses :
        LET asked == FetchGuard(futu[p])
            kline_data == IF asked THEN Records(resp) ELSE NoneResult
            request == << <<"futu", "get_history_kline", "">> >>
                       \o (IF asked THEN << <<"upstream", "request_history_kline", resp.ret>> >>
                           ELSE <<>>)
        IN  IF Falsy(kline_data)
            THEN /\ Log(p, request)
                 /\ Return(p, <<>>)
                 /\ UNCHANGED fetched
            ELSE IF ~Convertible(kline_data.records)
            THEN /\ Log(p, request \o << <<"convert", "Price", "raised">> >>)
                 /\ Raise(p)
                 /\ UNCHANGED fetched
            ELSE /\ Log(p, request)
                 /\ fetched' = [fetched EXCEPT ![p] = ToPrices(kline_data.records)]
                 /\ Goto(p, "gp_write")
    /\ UNCHANGED <<op, args, futu, cached_data, repeat, calls, open_ctx, cacheVars, apiVars, symVars, pureVars>>

gp_fetch(p) == gp_fetch_of(p, KlineResponses(args[p].start_date, args[p].end_date))

\* a write-back that appends the fetch to what the cache held
gp_write_Merge(p) ==
    /\ pc[p] = "gp_write"
    /\ prices_cache' = CacheSet(prices_cache, args[p].ticker,
                              CacheGet(prices_cache, args[p].ticker) \o fetched[p])
    /\ futu' = [futu EXCEPT ![p] = FutuAPI_close(@)]
    /\ open_ctx' = open_ctx - Released(futu[p])
    /\ Log(p, << <<"cache", "set_prices", "">>, <<"futu", "close", "">> >> \o CloseEvents(futu[p]))
    /\ Return(p, fetched[p])
    /\ UNCHANGED <<op, args, cached_data, fetched, repeat, calls, financial_metrics_cache, storedVars, apiVars,
                   symVars, pureVars>>

\* lines 60-62: write-back, close, return
gp_write(p) ==
    /\ pc[p] = "gp_write"
    /\ prices_cache' = CacheSet(prices_cache, args[p].ticker, fetched[p])
    /\ futu' = [futu EXCEPT ![p] = FutuAPI_close(@)]
    /\ open_ctx' = open_ctx - Released(futu[p])
    /\ Log(p, << <<"cache", "set_prices", "">>, <<"futu", "close", "">> >> \o CloseEvents(futu[p]))
    /\ Return(p, fetched[p])
    /\ UNCHANGED <<op, args, cached_data, fetched, repeat, calls, financial_metrics_cache, storedVars, apiVars,
                   symVars, pureVars>>

\* ------------------------------------------------- upstream statements
\* answers of quote_ctx.get_stock_quote(code) as get_financial_data reads them:
\* an error, or at most MaxRows rows, one per report date, in the provider's order
StatementRows == {[i \in 1..Len(ds) |-> [report_date |-> ds[i]]] :
                  ds \in {q \in SeqsOver(Days, MaxRows) : Injective(q)}}
StatementResponses ==
    {[ret |-> "RET_ERROR", data |-> <<>>]} \cup {[ret |-> "RET_OK", data |-> rows] : rows \in StatementRows}
\* the same answers with the rows oldest first: enough for the balance and cashflow
\* statements, which are only searched for the row of a given report date
JoinResponses ==
    {r \in StatementResponses :
        \A i, j \in 1..Len(r.data) : i < j => r.data[i].report_date < r.data[j].report_date}

\* answers of quote_ctx.get_market_snapshot([code]): an error, no row, one row
SnapshotResponses ==
    {[ret |-> "RET_ERROR", data |-> <<>>], [ret |-> "RET_OK", data |-> <<>>],
     [ret |-> "RET_OK", data |-> <<[currency |-> "USD"]>>]}

\* FutuAPI.get_financial_data(code, financial_type): the upstream request is
\* get_stock_quote(code) whatever the financial_type
FinancialDataEvents(self, financial_type, resp) ==
    << <<"futu", "get_financial_data", financial_type>> >>
    \o (IF FetchGuard(self) THEN << <<"upstream", "get_stock_quote", resp.ret>> >> ELSE <<>>)
FinancialData(self, resp) == IF FetchGuard(self) THEN Records(resp) ELSE NoneResult

\* FutuAPI.get_market_snapshot(code_list)
SnapshotEvents(self, resp) ==
    << <<"futu", "get_market_snapshot", "">> >>
    \o (IF FetchGuard(self) THEN << <<"upstream", "get_market_snapshot", resp.ret>> >> ELSE <<>>)
Snapshot(self, resp) == IF FetchGuard(self) THEN Records(resp) ELSE NoneResult

\* x or []
OrEmpty(r) == IF Falsy(r) THEN <<>> ELSE r.records

\* item.get(key) on a row dict
RowGet(item, key) == IF key \in DOMAIN item THEN <<item[key]>> ELSE NoValue

\* ------------------------------------------------- get_financial_metrics
Periods == {"ttm", "annual"}

RECURSIVE InsertDesc(_, _)
\* insert x behind the elements that do not sort after it (stable, descending)
InsertDesc(sorted, x) ==
    IF sorted = <<>> THEN <<x>>
    ELSE IF Head(sorted).report_period >= x.report_period
         THEN <<Head(sorted)>> \o InsertDesc(Tail(sorted), x)
         ELSE <<x>> \o sorted

RECURSIVE SortDesc(_)
\* list.sort(key=lambda x: x.report_period, reverse=True)
SortDesc(s) ==
    IF s = <<>> THEN <<>>
    ELSE InsertDesc(SortDesc(SubSeq(s, 1, Len(s) - 1)), s[Len(s)])

\* lines 78-81: filter by end_date, sort descending, cut to limit
FilterMetrics(cached, end_date) ==
    SortDesc(SelectSeq(cached, LAMBDA metric : metric.report_period <= end_date))

\* a join that takes the first row of the statement when no row has the date
MatchingOrFirst(data, date) ==
    IF \E i \in 1..Len(data) : data[i].report_date = date
    THEN <<data[CHOOSE i \in 1..Len(data) :
                  /\ data[i].report_date = date
                  /\ \A j \in 1..(i - 1) : data[j].report_date # date]>>
    ELSE IF data # <<>> THEN <<data[1]>> ELSE <<>>

\* next((b for b in data if b["report_date"] == date), {})
Matching(data, date) ==
    IF \E i \in 1..Len(data) : data[i].report_date = date
    THEN <<data[CHOOSE i \in 1..Len(data) :
                  /\ data[i].report_date = date
                  /\ \A j \in 1..(i - 1) : data[j].report_date # date]>>
    ELSE <<>>

\* balance_item.get(key), where balance_item is the matching row or {}
ItemGet(found, key) == IF found = <<>> THEN NoValue ELSE RowGet(found[1], key)

Abs(n) == IF n < 0 THEN -n ELSE n
RECURSIVE GCD(_, _)
GCD(m, n) == IF n = 0 THEN m ELSE GCD(n, m % n)
\* a / b for b # 0: the quotient as a fraction in lowest terms
Quotient(a, b) ==
    LET g == GCD(Abs(a), Abs(b))
        sign == IF (a < 0) = (b < 0) THEN 1 ELSE -1
    IN  [num |-> sign * (Abs(a) \div g), den |-> Abs(b) \div g]

\* a division that also answers None for a zero numerator
safe_divide_Truthy(a, b) ==
    IF a # NoValue /\ b # NoValue /\ a[1] # 0 /\ b[1] # 0
    THEN <<Quotient(a[1], b[1])>> ELSE NoValue

\* lines 114-115: a / b if a is not None and b is not None and b != 0 else None
safe_divide(a, b) ==
    IF a # NoValue /\ b # NoValue /\ b[1] # 0 THEN <<Quotient(a[1], b[1])>> ELSE NoValue

\* lines 144-146: (x - y) if x is not None and y is not None else None
Minus(x, y) == IF x # NoValue /\ y # NoValue THEN <<x[1] - y[1]>> ELSE NoValue

\* FinancialMetrics(ticker=..., report_period=item["report_date"], period=period, ...)
\* with the fields that are computed from the rows; balance_item and
\* cashflow_item are the matching row or {}
MakeMetrics(item, balance_item, cashflow_item, snapshot, ticker, period) ==
    [report_period |-> item.report_date, period |-> period,
     market_cap |-> RowGet(snapshot, "market_val"),
     free_cash_flow_yield |->
        safe_divide(ItemGet(cashflow_item, "free_cash_flow"), RowGet(snapshot, "market_val")),
     gross_margin |-> safe_divide(RowGet(item, "gross_profit"), RowGet(item, "revenue")),
     operating_margin |-> safe_divide(RowGet(item, "operating_income"), RowGet(item, "revenue")),
     net_margin |-> safe_divide(RowGet(item, "net_income"), RowGet(item, "revenue")),
     return_on_equity |->
        safe_divide(RowGet(item, "net_income"), ItemGet(balance_item, "total_equity")),
     return_on_assets |->
        safe_divide(RowGet(item, "net_income"), ItemGet(balance_item, "total_assets")),
     asset_turnover |->
        safe_divide(RowGet(item, "revenue"), ItemGet(balance_item, "total_assets")),
     current_ratio |->
        safe_divide(ItemGet(balance_item, "current_assets"),
                    ItemGet(balance_item, "current_liabilities")),
     quick_ratio |->
        safe_divide(Minus(ItemGet(balance_item, "current_assets"),
                          ItemGet(balance_item, "inventory")),
                    ItemGet(balance_item, "current_liabilities")),
     cash_ratio |->
        safe_divide(ItemGet(balance_item, "cash"), ItemGet(balance_item, "current_liabilities")),
     operating_cash_flow_ratio |->
        safe_divide(ItemGet(cashflow_item, "operating_cash_flow"),
                    ItemGet(balance_item, "current_liabilities")),
     debt_to_equity |->
        safe_divide(ItemGet(balance_item, "total_liabilities"),
                    ItemGet(balance_item, "total_equity")),
     debt_to_assets |->
        safe_divide(ItemGet(balance_item, "total_liabilities"),
                    ItemGet(balance_item, "total_assets")),
     interest_coverage |-> safe_divide(RowGet(item, "ebitda"), RowGet(item, "interest_expense")),
     free_cash_flow_per_share |->
        safe_divide(ItemGet(cashflow_item, "free_cash_flow"), RowGet(snapshot, "total_shares"))]

RECURSIVE NormalizeMetrics(_, _, _, _, _, _, _)
\* lines 105-170: the loop over the income rows, from row i on
NormalizeMetrics(financial_data, balance_data, cashflow_data, snapshot, a, i, acc) ==
    IF i > Len(financial_data) THEN acc
    ELSE LET item == financial_data[i]
         IN  IF item.report_date > a.end_date
             THEN NormalizeMetrics(financial_data, balance_data, cashflow_data, snapshot, a,
                                   i + 1, acc)
             ELSE LET metrics == MakeMetrics(item, Matching(balance_data, item.report_date),
                                             Matching(cashflow_data, item.report_date),
                                             snapshot, a.ticker, a.period)
                      grown == Append(acc, metrics)
                  IN  IF Len(grown) >= a.limit THEN grown
                      ELSE NormalizeMetrics(financial_data, balance_data, cashflow_data,
                                            snapshot, a, i + 1, grown)

call_get_financial_metrics(p) ==
    \E t \in Tickers, e \in Days, per \in Periods, lim \in Limits :
        Enter(p, "get_financial_metrics",
              [NoArgs EXCEPT !.ticker = t, !.end_date = e, !.period = per, !.limit = lim])

\* lines 76-81; the lookup stands before the try of line 84
fm_cache_of(p, outcomes) ==
    /\ pc[p] = "fm_cache"
    /\ \E outcome \in outcomes :
        IF outcome = "raised"
        THEN /\ Log(p, << <<"cache", "get_financial_metrics", "raised">> >>)
             /\ Raise(p)
             /\ UNCHANGED cached_data
        ELSE LET cached == CacheGet(financial_metrics_cache, args[p].ticker)
                 filtered_data == FilterMetrics(cached, args[p].end_date)
             IN  /\ cached_data' = [cached_data EXCEPT ![p] = cached]
                 /\ Log(p, << <<"cache", "get_financial_metrics", "">> >>)
                 /\ IF cached # <<>> /\ filtered_data # <<>>
                    THEN Return(p, Take(filtered_data, args[p].limit))
                    ELSE Goto(p, "fm_connect")
    /\ UNCHANGED <<op, args, futu, fetched, repeat, calls, open_ctx, cacheVars, apiVars, symVars, pureVars>>

\* lines 76-81 with a store whose lookup hands back what is stored
fm_cache(p) == fm_cache_of(p, {"found"})

\* lines 85-87
fm_connect(p) ==
    /\ pc[p] = "fm_connect"
    /\ ConnectOrRaise(p, "fm_fetch")

\* lines 90-173: snapshot, the three statements, the normalization, with the
\* provider answering from the given sets
fm_fetch_of(p, snapshots, incomes, joins) ==
    /\ pc[p] = "fm_fetch"
    /\ \E snap \in snapshots :
        LET snapshot == Snapshot(futu[p], snap)
        IN  IF Falsy(snapshot)
            THEN /\ Log(p, SnapshotEvents(futu[p], snap))
                 /\ Return(p, <<>>)
                 /\ UNCHANGED fetched
            ELSE \E inc \in incomes, bal, cf \in joins :
                    LET financial_data == OrEmpty(FinancialData(futu[p], inc))
                        balance_data == OrEmpty(FinancialData(futu[p], bal))
                        cashflow_data == OrEmpty(FinancialData(futu[p], cf))
                        financial_metrics ==
                            NormalizeMetrics(financial_data, balance_data, cashflow_data,
                                             snapshot.records[1], args[p], 1, <<>>)
                    IN  /\ Log(p, SnapshotEvents(futu[p], snap)
                                  \o FinancialDataEvents(futu[p], "income", inc)
                                  \o FinancialDataEvents(futu[p], "balance", bal)
                                  \o FinancialDataEvents(futu[p], "cashflow", cf))
                        /\ IF financial_metrics = <<>>
                           THEN /\ Return(p, <<>>)
                                /\ UNCHANGED fetched
                           ELSE /\ fetched' = [fetched EXCEPT ![p] = financial_metrics]
                                /\ Goto(p, "fm_write")
    /\ UNCHANGED <<op, args, futu, cached_data, repeat, calls, open_ctx, cacheVars, apiVars, symVars, pureVars>>

fm_fetch(p) == fm_fetch_of(p, SnapshotResponses, StatementResponses, JoinResponses)

\* a write-back that adds the fetched records to what the cache holds
fm_write_Merge(p) ==
    /\ pc[p] = "fm_write"
    /\ financial_metrics_cache' =
          CacheSet(financial_metrics_cache, args[p].ticker,
                   CacheGet(financial_metrics_cache, args[p].ticker) \o fetched[p])
    /\ futu' = [futu EXCEPT ![p] = FutuAPI_close(@)]
    /\ open_ctx' = open_ctx - Released(futu[p])
    /\ Log(p, << <<"cache", "set_financial_metrics", "">>, <<"futu", "close", "">> >>
              \o CloseEvents(futu[p]))
    /\ Return(p, fetched[p])
    /\ UNCHANGED <<op, args, cached_data, fetched, repeat, calls, prices_cache, storedVars, apiVars,
                   symVars, pureVars>>

\* lines 176-178
fm_write(p) ==
    /\ pc[p] = "fm_write"
    /\ financial_metrics_cache' = CacheSet(financial_metrics_cache, args[p].ticker, fetched[p])
    /\ futu' = [futu EXCEPT ![p] = FutuAPI_close(@)]
    /\ open_ctx' = open_ctx - Released(futu[p])
    /\ Log(p, << <<"cache", "set_financial_metrics", "">>, <<"futu", "close", "">> >>
              \o CloseEvents(futu[p]))
    /\ Return(p, fetched[p])
    /\ UNCHANGED <<op, args, cached_data, fetched, repeat, calls, prices_cache, storedVars, apiVars, symVars, pureVars>>

\* --------------------------------------------------------- get_market_cap
\* limit=10, the default of get_financial_metrics (line 72)
DefaultLimit == 10
\* the market values a snapshot row may carry
MarketVals == 0..MaxVal
\* answers of get_market_snapshot with and without a market_val in the row
MarketSnapshots ==
    SnapshotResponses
    \cup {[ret |-> "RET_OK", data |-> <<[currency |-> "USD", market_val |-> v]>>] : v \in MarketVals}

\* not x, for an optional number
NotNumber(x) == x = NoValue \/ x = <<0>>

call_get_market_cap(p) ==
    \E t \in Tickers, e \in Days :
        Enter(p, "get_market_cap",
              [NoArgs EXCEPT !.ticker = t, !.end_date = e, !.limit = DefaultLimit])

\* lines 302-306: financial_metrics[0].market_cap raises IndexError on an empty
\* list; a None or zero market_cap is answered with None
mc_back(p) ==
    /\ pc[p] = "mc_back"
    /\ LET financial_metrics == result[p].value
       IN  /\ fetched' = [fetched EXCEPT ![p] = financial_metrics]
           /\ pc' = [pc EXCEPT ![p] = "done"]
           /\ result' = [result EXCEPT ![p] =
                  IF financial_metrics = <<>> THEN [kind |-> "raise", value |-> <<>>]
                  ELSE [kind |-> "return",
                        value |-> IF NotNumber(financial_metrics[1].market_cap) THEN NoValue
                                  ELSE financial_metrics[1].market_cap]]
    /\ UNCHANGED <<op, args, futu, cached_data, repeat, trace, calls, open_ctx,
                   cacheVars, apiVars, symVars, pureVars>>

\* ------------------------------------------------------ search_line_items
\* the requested field lists the model calls search_line_items with
LineItemLists == { <<"revenue">>, <<"total_assets">>, <<"free_cash_flow">>,
                   <<"revenue", "total_assets">>, <<"ebitda">> }

\* a search that fetches all three statements whatever was asked for
FinancialTypesAll(line_items) == {"income", "balance", "cashflow"}

\* lines 201-208: the fixed field-name-to-statement-kind mapping
FinancialTypes(line_items) ==
    {"income" : i \in {j \in 1..Len(line_items) :
        line_items[j] \in {"revenue", "gross_profit", "operating_income", "net_income"}}}
    \cup {"balance" : i \in {j \in 1..Len(line_items) :
        line_items[j] \in {"total_assets", "total_liabilities", "total_equity", "current_assets"}}}
    \cup {"cashflow" : i \in {j \in 1..Len(line_items) :
        line_items[j] \in {"operating_cash_flow", "free_cash_flow"}}}

\* the orders in which a Python set of strings may be iterated
IterationOrders(S) ==
    {q \in SeqsOver(S, Cardinality(S)) : Len(q) = Cardinality(S) /\ Injective(q)}

\* lines 228-239: LineItem(**item_data)
MakeLineItem(item, a, currency) ==
    [report_period |-> item.report_date, period |-> a.period, currency |-> currency,
     fields |-> [f \in Range(a.line_items) |-> RowGet(item, f)]]

RECURSIVE LineItemRows(_, _, _, _, _)
\* lines 223-242: the inner loop over the rows of one statement kind, from row i on
LineItemRows(data, a, currency, i, acc) ==
    IF i > Len(data) THEN acc
    ELSE IF data[i].report_date > a.end_date
         THEN LineItemRows(data, a, currency, i + 1, acc)
         ELSE LET grown == Append(acc, MakeLineItem(data[i], a, currency))
              IN  IF Len(grown) >= a.limit THEN grown
                  ELSE LineItemRows(data, a, currency, i + 1, grown)

RECURSIVE LineItemKinds(_, _, _, _, _, _)
\* lines 222-244: the outer loop over all_data.items(), from kind k on
LineItemKinds(order, all_data, a, currency, k, acc) ==
    IF k > Len(order) THEN acc
    ELSE LET grown == LineItemRows(all_data[order[k]], a, currency, 1, acc)
         IN  IF Len(grown) >= a.limit THEN grown
             ELSE LineItemKinds(order, all_data, a, currency, k + 1, grown)

call_search_line_items(p) ==
    \E t \in Tickers, items \in LineItemLists, e \in Days, lim \in Limits :
        Enter(p, "search_line_items",
              [NoArgs EXCEPT !.ticker = t, !.line_items = items, !.end_date = e, !.limit = lim])

\* lines 193-195: no cache lookup comes first
li_connect(p) ==
    /\ pc[p] = "li_connect"
    /\ ConnectOrRaise(p, "li_fetch")

\* lines 198-247: statements, snapshot, LineItem construction, close, return,
\* with the provider answering the statement requests from the given set
li_fetch_of(p, statements) ==
    /\ pc[p] = "li_fetch"
    /\ \E order \in IterationOrders(FinancialTypes(args[p].line_items)),
          snap \in SnapshotResponses :
        \E resp \in [Range(order) -> statements] :
            LET all_data == [ftype \in Range(order) |-> OrEmpty(FinancialData(futu[p], resp[ftype]))]
                fetches == [k \in 1..Len(order) |->
                               FinancialDataEvents(futu[p], order[k], resp[order[k]])]
                snapshot == Snapshot(futu[p], snap)
                currency == IF Falsy(snapshot) THEN "USD" ELSE snapshot.records[1].currency
                line_items_result == LineItemKinds(order, all_data, args[p], currency, 1, <<>>)
            IN  /\ Log(p, (IF Len(order) = 0 THEN <<>>
                           ELSE IF Len(order) = 1 THEN fetches[1]
                           ELSE IF Len(order) = 2 THEN fetches[1] \o fetches[2]
                           ELSE fetches[1] \o fetches[2] \o fetches[3])
                          \o SnapshotEvents(futu[p], snap)
                          \o << <<"futu", "close", "">> >> \o CloseEvents(futu[p]))
                /\ futu' = [futu EXCEPT ![p] = FutuAPI_close(@)]
                /\ open_ctx' = open_ctx - Released(futu[p])
                /\ Return(p, line_items_result)
    /\ UNCHANGED <<op, args, cached_data, fetched, repeat, calls, cacheVars, apiVars, symVars, pureVars>>

li_fetch(p) == li_fetch_of(p, StatementResponses)

\* statement answers whose rows may carry a revenue figure
RevenueResponses ==
    StatementResponses
    \cup {[ret |-> "RET_OK", data |-> <<[report_date |-> d, revenue |-> v]>>] :
            d \in Days, v \in MarketVals}

\* ------------------------------------- get_insider_trades, get_company_news
\* the trade dicts a store may hold: a filing_date, and a transaction_date or None
TradeRecords ==
    {[filing_date |-> f, transaction_date |-> t] :
        f \in Days, t \in {NoValue} \cup {<<d>> : d \in Days}}
NewsRecords == {[date |-> d] : d \in Days}
\* start_date: str | None
StartDates == {NoValue} \cup {<<d>> : d \in Days}

\* a date taken from the filing date alone
EffectiveDateFiling(trade) == trade.filing_date

\* trade.get("transaction_date") or trade["filing_date"]
EffectiveDate(trade) ==
    IF trade.transaction_date # NoValue THEN trade.transaction_date[1] ELSE trade.filing_date

\* (start_date is None or date >= start_date) and date <= end_date
InDateRange(date, start_date, end_date) ==
    /\ (start_date = NoValue \/ date >= start_date[1])
    /\ date <= end_date

RECURSIVE InsertTradeDesc(_, _)
InsertTradeDesc(sorted, x) ==
    IF sorted = <<>> THEN <<x>>
    ELSE IF EffectiveDate(Head(sorted)) >= EffectiveDate(x)
         THEN <<Head(sorted)>> \o InsertTradeDesc(Tail(sorted), x)
         ELSE <<x>> \o sorted

RECURSIVE SortTradesDesc(_)
\* filtered_data.sort(key=lambda x: x.transaction_date or x.filing_date, reverse=True)
SortTradesDesc(s) ==
    IF s = <<>> THEN <<>>
    ELSE InsertTradeDesc(SortTradesDesc(SubSeq(s, 1, Len(s) - 1)), s[Len(s)])

RECURSIVE InsertNewsDesc(_, _)
InsertNewsDesc(sorted, x) ==
    IF sorted = <<>> THEN <<x>>
    ELSE IF Head(sorted).date >= x.date
         THEN <<Head(sorted)>> \o InsertNewsDesc(Tail(sorted), x)
         ELSE <<x>> \o sorted

RECURSIVE SortNewsDesc(_)
\* filtered_data.sort(key=lambda x: x.date, reverse=True)
SortNewsDesc(s) ==
    IF s = <<>> THEN <<>>
    ELSE InsertNewsDesc(SortNewsDesc(SubSeq(s, 1, Len(s) - 1)), s[Len(s)])

\* lines 263-266: the trades in the date range, latest first
FilterTrades(cached, start_date, end_date) ==
    SortTradesDesc(SelectSeq(cached,
        LAMBDA trade : InDateRange(EffectiveDate(trade), start_date, end_date)))

\* lines 284-287: the news in the date range, latest first
FilterNews(cached, start_date, end_date) ==
    SortNewsDesc(SelectSeq(cached, LAMBDA news : InDateRange(news.date, start_date, end_date)))

\* a cache-only function runs from entry to return: lookup, filter, sort, cut
CacheOnly(p, f, a, cached, filtered_data) ==
    /\ pc[p] = "idle"
    /\ calls < MaxCalls
    /\ calls' = calls + 1
    /\ op' = [op EXCEPT ![p] = f]
    /\ args' = [args EXCEPT ![p] = a]
    /\ cached_data' = [cached_data EXCEPT ![p] = cached]
    /\ trace' = [trace EXCEPT ![p] = << <<"cache", f, "">> >>]
    /\ pc' = [pc EXCEPT ![p] = "done"]
    /\ result' = [result EXCEPT ![p] =
          [kind |-> "return",
           value |-> IF cached # <<>> /\ filtered_data # <<>>
                     THEN Take(filtered_data, a.limit) ELSE <<>>]]

\* a get_insider_trades that keeps what it filtered as the ticker's stored set
get_insider_trades_Storing(p) ==
    \E t \in Tickers, e \in Days, s \in StartDates, lim \in Limits :
        LET a == [NoArgs EXCEPT !.ticker = t, !.end_date = e, !.start_date = s, !.limit = lim]
            cached == CacheGet(insider_trades_cache, t)
        IN  /\ CacheOnly(p, "get_insider_trades", a, cached, FilterTrades(cached, s, e))
            /\ insider_trades_cache' = CacheSet(insider_trades_cache, t, FilterTrades(cached, s, e))
            /\ UNCHANGED <<futu, fetched, repeat, open_ctx, prices_cache, financial_metrics_cache,
                           company_news_cache, apiVars, symVars, pureVars>>

\* lines 261-271
get_insider_trades(p) ==
    \E t \in Tickers, e \in Days, s \in StartDates, lim \in Limits :
        LET a == [NoArgs EXCEPT !.ticker = t, !.end_date = e, !.start_date = s, !.limit = lim]
            cached == CacheGet(insider_trades_cache, t)
        IN  /\ CacheOnly(p, "get_insider_trades", a, cached, FilterTrades(cached, s, e))
            /\ UNCHANGED <<futu, fetched, repeat, open_ctx, cacheVars, apiVars, symVars, pureVars>>

\* lines 282-292
get_company_news(p) ==
    \E t \in Tickers, e \in Days, s \in StartDates, lim \in Limits :
        LET a == [NoArgs EXCEPT !.ticker = t, !.end_date = e, !.start_date = s, !.limit = lim]
            cached == CacheGet(company_news_cache, t)
        IN  /\ CacheOnly(p, "get_company_news", a, cached, FilterNews(cached, s, e))
            /\ UNCHANGED <<futu, fetched, repeat, open_ctx, cacheVars, apiVars, symVars, pureVars>>

\* ------------------------------------------------ FutuAPI used directly
\* (as src/test_futu_api.py does): any order of connect / fetch / close
ApiStep(name, ret, asked) ==
    /\ api_ops < MaxOps
    /\ api_ops' = api_ops + 1
    /\ api_last' = [op |-> name, ret |-> ret, asked |-> asked]

api_connect ==
    \E quote_ok, trade_ok \in BOOLEAN :
        LET c == FutuAPI_connect(api, quote_ok, trade_ok)
        IN  /\ ApiStep("connect", IF c.ret THEN "True" ELSE "False", FALSE)
            /\ api' = c.self
            /\ api_connected' = (api_connected \/ c.ret)
            /\ open_ctx' = open_ctx + Opened(quote_ok, trade_ok)
            /\ UNCHANGED <<pc, op, args, futu, cached_data, fetched, result, repeat, trace, calls,
                           cacheVars, symVars, pureVars>>

\* a fetch method: None without a request when quote_ctx is unset, else the
\* request is made and an error answer becomes None
ApiFetch(name, responses) ==
    /\ \/ /\ ~FetchGuard(api)
          /\ ApiStep(name, "None", FALSE)
       \/ /\ FetchGuard(api)
          /\ \E resp \in responses :
                ApiStep(name, IF Records(resp).is_none THEN "None" ELSE "records", TRUE)
    /\ UNCHANGED <<api, api_connected, open_ctx, pc, op, args, futu, cached_data, fetched,
                   result, repeat, trace, calls, cacheVars, symVars, pureVars>>

api_get_history_kline == \E s, e \in Days : ApiFetch("get_history_kline", KlineResponses(s, e))
api_get_market_snapshot == ApiFetch("get_market_snapshot", SnapshotResponses)
api_get_financial_data == ApiFetch("get_financial_data", StatementResponses)

api_close ==
    /\ ApiStep("close", "None", FALSE)
    /\ api' = FutuAPI_close(api)
    /\ open_ctx' = open_ctx - Released(api)
    /\ UNCHANGED <<api_connected, pc, op, args, futu, cached_data, fetched, result, repeat,
                   trace, calls, cacheVars, symVars, pureVars>>

\* ------------------------------------------------ symbol translation steps
sym_translate ==
    /\ sym_n = 0
    /\ sym1' = ToFutuCode(sym)
    /\ sym_n' = 1
    /\ UNCHANGED <<sym, sym2, cacheVars, procVars, apiVars, pureVars>>

sym_translate_again ==
    /\ sym_n = 1
    /\ sym2' = ToFutuCode(sym1)
    /\ sym_n' = 2
    /\ UNCHANGED <<sym, sym1, cacheVars, procVars, apiVars, pureVars>>

\* ------------------------------------------------ safe_divide on its own
\* the arguments: None, or a number of either sign
OptNumbers == {NoValue} \cup {<<v>> : v \in (-MaxVal)..MaxVal}

call_safe_divide ==
    /\ sd_n = 0
    /\ sd_ret' = safe_divide(sd_a, sd_b)
    /\ sd_n' = 1
    /\ UNCHANGED <<sd_a, sd_b, jn_rows, jn_out, cacheVars, procVars, apiVars, symVars>>

\* ------------------------------------------------ the metrics join on its own
IncomeFields == {"revenue", "gross_profit", "operating_income", "net_income", "ebitda",
                 "interest_expense"}
BalanceFields == {"total_equity", "total_assets", "current_assets", "current_liabilities",
                  "inventory", "cash", "total_liabilities"}
CashflowFields == {"free_cash_flow", "operating_cash_flow"}
SnapshotFields == {"market_val", "total_shares"}

\* the rows a statement may hold: the report date alone, or the date with every
\* field of the statement at zero, or at MaxVal
RowsOf(fields) ==
    {[report_date |-> d] : d \in Days}
    \cup {[k \in {"report_date"} \cup fields |-> IF k = "report_date" THEN d ELSE v] :
            d \in Days, v \in {0, MaxVal}}
\* a statement: at most MaxRows rows, one per report date, oldest first
StatementsOf(fields) ==
    {q \in SeqsOver(RowsOf(fields), MaxRows) :
        \A i, j \in 1..Len(q) : i < j => q[i].report_date < q[j].report_date}
\* snapshot[0]: the currency alone, or with market_val and total_shares
SnapshotRows ==
    {[currency |-> "USD"]}
    \cup {[k \in {"currency"} \cup SnapshotFields |-> IF k = "currency" THEN "USD" ELSE v] :
            v \in {0, MaxVal}}

\* lines 105-170 run on one income row and the statements to join it with
normalize_metrics ==
    /\ jn_rows # <<>>
    /\ jn_out = <<>>
    /\ jn_out' = NormalizeMetrics(jn_rows.financial_data, jn_rows.balance_data,
                                  jn_rows.cashflow_data, jn_rows.snapshot,
                                  [NoArgs EXCEPT !.end_date = MaxDay, !.limit = DefaultLimit],
                                  1, <<>>)
    /\ UNCHANGED <<jn_rows, sd_a, sd_b, sd_ret, sd_n, cacheVars, procVars, apiVars, symVars>>

\* ------------------------------------------------------------ specification
InitFacade ==
    /\ prices_cache = [t \in Tickers |-> <<>>]
    /\ financial_metrics_cache = [t \in Tickers |-> <<>>]
    /\ pc = [p \in Procs |-> "idle"]
    /\ op = [p \in Procs |-> "none"]
    /\ args = [p \in Procs |-> NoArgs]
    /\ futu = [p \in Procs |-> FutuAPI]
    /\ cached_data = [p \in Procs |-> <<>>]
    /\ fetched = [p \in Procs |-> <<>>]
    /\ result = [p \in Procs |-> NoResult]
    /\ repeat = [p \in Procs |-> FALSE]
    /\ trace = [p \in Procs |-> <<>>]
    /\ calls = 0
    /\ open_ctx = 0
    /\ api = FutuAPI
    /\ api_last = [op |-> "__init__", ret |-> "None", asked |-> FALSE]
    /\ api_ops = 0
    /\ api_connected = FALSE
    /\ sym1 = <<>>
    /\ sym2 = <<>>
    /\ sym_n = 0

\* no safe_divide call and no join under way
InitPure ==
    /\ sd_a = NoValue /\ sd_b = NoValue /\ sd_ret = NoValue /\ sd_n = 0
    /\ jn_rows = <<>> /\ jn_out = <<>>

\* nothing in this code stores insider trades or company news
InitStored ==
    /\ insider_trades_cache = [t \in Tickers |-> <<>>]
    /\ company_news_cache = [t \in Tickers |-> <<>>]

Init ==
    /\ InitFacade
    /\ InitStored
    /\ InitPure
    /\ sym = <<>>

\* every ticker of at most MaxLen characters
InitSym ==
    /\ InitFacade
    /\ InitStored
    /\ InitPure
    /\ sym \in SeqsOver(Alphabet, MaxLen)

\* one facade call at a time: a call is entered only when no call is running
Sequential(p) == \A q \in Procs : Quiet(q)

Next ==
    \E p \in SeqProcs :
        \/ Sequential(p) /\ call_get_prices(p)
        \/ gp_cache(p)
        \/ gp_connect(p)
        \/ gp_fetch(p)
        \/ gp_write(p)
        \/ Sequential(p) /\ call_get_financial_metrics(p)
        \/ fm_cache(p)
        \/ fm_connect(p)
        \/ fm_fetch(p)
        \/ fm_write(p)
        \/ Sequential(p) /\ call_search_line_items(p)
        \/ li_connect(p)
        \/ li_fetch(p)
        \/ Sequential(p) /\ call_again(p)
        \/ leave(p)

Spec == Init /\ [][Next]_vars

\* safe_divide called once on any pair of arguments
InitDiv ==
    /\ InitFacade
    /\ InitStored
    /\ sym = <<>>
    /\ sd_a \in OptNumbers /\ sd_b \in OptNumbers
    /\ sd_ret = NoValue /\ sd_n = 0
    /\ jn_rows = <<>> /\ jn_out = <<>>
NextDiv == call_safe_divide
SpecDiv == InitDiv /\ [][NextDiv]_vars

\* one income row normalized against any balance and cashflow statements
InitJoin ==
    /\ InitFacade
    /\ InitStored
    /\ sym = <<>>
    /\ sd_a = NoValue /\ sd_b = NoValue /\ sd_ret = NoValue /\ sd_n = 0
    /\ jn_rows \in [financial_data : {<<item>> : item \in RowsOf(IncomeFields)},
                     balance_data : StatementsOf(BalanceFields),
                     cashflow_data : StatementsOf(CashflowFields),
                     snapshot : SnapshotRows]
    /\ jn_out = <<>>
NextJoin == normalize_metrics
SpecJoin == InitJoin /\ [][NextJoin]_vars

\* the store holds, for the first ticker, insider trades or company news that
\* some other user of the store has put there
InitTrades ==
    /\ InitFacade
    /\ InitPure
    /\ sym = <<>>
    /\ \E trades \in SeqsOver(TradeRecords, MaxRows), news \in SeqsOver(NewsRecords, MaxRows) :
          /\ trades = <<>> \/ news = <<>>
          /\ insider_trades_cache = [t \in Tickers |-> IF t = <<"A">> THEN trades ELSE <<>>]
          /\ company_news_cache = [t \in Tickers |-> IF t = <<"A">> THEN news ELSE <<>>]

NextTrades ==
    \E p \in SeqProcs :
        \/ get_insider_trades(p)
        \/ get_company_news(p)

SpecTrades == InitTrades /\ [][NextTrades]_vars

\* balance and cashflow statements that answer with no row
NoRowResponses == {r \in JoinResponses : r.ret = "RET_OK" /\ r.data = <<>>}

\* get_prices and get_financial_metrics called from two threads, one call each:
\* a call may be entered while the other thread's call is under way, and the
\* steps of the two calls interleave
NextRace ==
    \E p \in Procs :
        \/ call_get_prices(p)
        \/ gp_cache(p)
        \/ gp_connect(p)
        \/ gp_fetch(p)
        \/ gp_write(p)
        \/ call_get_financial_metrics(p)
        \/ fm_cache(p)
        \/ fm_connect(p)
        \/ fm_fetch_of(p, SnapshotResponses, StatementResponses, NoRowResponses)
        \/ fm_write(p)
SpecRace == Init /\ [][NextRace]_vars

\* get_prices alone
NextPrices ==
    \E p \in SeqProcs :
        \/ call_get_prices(p)
        \/ gp_cache(p)
        \/ gp_connect(p)
        \/ gp_fetch(p)
        \/ gp_write(p)
        \/ call_again(p)
        \/ leave(p)
SpecPrices == Init /\ [][NextPrices]_vars

\* the three provider-backed functions with a store whose lookups may raise and
\* a provider whose candles may lack a price
NextFail ==
    \E p \in SeqProcs :
        \/ call_get_prices(p)
        \/ gp_cache_of(p, LookupOutcomes)
        \/ gp_connect(p)
        \/ gp_fetch_of(p, KlineAnswers(args[p].start_date, args[p].end_date))
        \/ gp_write(p)
        \/ call_get_financial_metrics(p)
        \/ fm_cache_of(p, LookupOutcomes)
        \/ fm_connect(p)
        \/ fm_fetch(p)
        \/ fm_write(p)
        \/ call_search_line_items(p)
        \/ li_connect(p)
        \/ li_fetch(p)
        \/ leave(p)
SpecFail == Init /\ [][NextFail]_vars

\* search_line_items alone, over statement rows with and without revenue
NextItems ==
    \E p \in SeqProcs :
        \/ call_search_line_items(p)
        \/ li_connect(p)
        \/ li_fetch_of(p, RevenueResponses)
        \/ leave(p)
SpecItems == Init /\ [][NextItems]_vars

\* get_market_cap alone, over snapshots that carry a market value
NextCap ==
    \/ \E p \in SeqProcs : call_get_market_cap(p)
    \/ \E p \in SeqProcs : fm_cache(p)
    \/ \E p \in SeqProcs : fm_connect(p)
    \/ \E p \in SeqProcs : fm_fetch_of(p, MarketSnapshots, StatementResponses, JoinResponses)
    \/ \E p \in SeqProcs : fm_write(p)
    \/ \E p \in SeqProcs : mc_back(p)
    \/ \E p \in SeqProcs : leave(p)
SpecCap == Init /\ [][NextCap]_vars

NextApi ==
    \/ api_connect
    \/ api_get_history_kline
    \/ api_get_market_snapshot
    \/ api_get_financial_data
    \/ api_close

SpecApi == Init /\ [][NextApi]_vars

NextSym ==
    \/ sym_translate
    \/ sym_translate_again

SpecSym == InitSym /\ [][NextSym]_vars


\* ------------------------------------------------------------ properties
Done(p) == pc[p] = "done"
Returned(p) == Done(p) /\ result[p].kind = "return"
Raised(p) == Done(p) /\ result[p].kind = "raise"

\* the call has connected to, called or queried the provider
TouchedProvider(p) == \E i \in 1..Len(trace[p]) : trace[p][i][1] \in {"futu", "upstream"}
\* the call has looked into the cache
LookedUp(p) == \E i \in 1..Len(trace[p]) : trace[p][i][1] = "cache" /\ trace[p][i][3] = ""
                                           /\ trace[p][i][2] \in {"get_prices", "get_financial_metrics"}

\* some record the lookup found passes the date filter of the request
CacheIntersects(p) ==
    \/ /\ op[p] = "get_prices"
       /\ \E i \in 1..Len(cached_data[p]) :
            /\ args[p].start_date <= cached_data[p][i].time
            /\ cached_data[p][i].time <= args[p].end_date
    \/ /\ op[p] = "get_financial_metrics"
       /\ \E i \in 1..Len(cached_data[p]) : cached_data[p][i].report_period <= args[p].end_date

\* C1: a get_prices or get_financial_metrics call whose cache lookup found at
\* least one record passing the date filter returns, and has neither connected
\* to nor queried the provider, however few records passed.
C1_CacheShortCircuit ==
    \A p \in Procs :
        (Done(p) /\ CacheIntersects(p)) => (Returned(p) /\ ~TouchedProvider(p))

\* C1 witness: a two-day range answered from a cache holding one of the two days
C1_Witness ==
    \E p \in Procs :
        /\ Returned(p) /\ op[p] = "get_prices" /\ CacheIntersects(p)
        /\ args[p].end_date - args[p].start_date >= 1
        /\ Len(result[p].value) = 1
        /\ ~TouchedProvider(p)

\* the cache set of the call's ticker and kind
CacheOf(p) ==
    IF op[p] = "get_prices" THEN CacheGet(prices_cache, args[p].ticker)
    ELSE CacheGet(financial_metrics_cache, args[p].ticker)

\* C2: when a get_prices or get_financial_metrics call has missed the cache and
\* written its fetch back, the cache set of that ticker and kind is exactly what
\* the call returns and holds no record of the set it replaced; and a call that
\* immediately repeats such a call returns without touching the provider.
C2_ReadThroughWriteBack ==
    \A p \in Procs :
        /\ (Returned(p) /\ WroteBack(trace[p])) =>
              /\ result[p].value # <<>>
              /\ CacheOf(p) = result[p].value
              /\ \A i \in 1..Len(cached_data[p]) : cached_data[p][i] \notin Range(CacheOf(p))
        /\ (Done(p) /\ repeat[p]) => (Returned(p) /\ LookedUp(p) /\ ~TouchedProvider(p))

\* C2 witness: a write-back that replaced a non-empty cached set
C2_Witness ==
    \E p \in Procs :
        /\ Returned(p) /\ WroteBack(trace[p])
        /\ cached_data[p] # <<>>
        /\ CacheOf(p) = result[p].value

ConnectFailed(p) == \E i \in 1..Len(trace[p]) : trace[p][i][1] = "upstream" /\ trace[p][i][3] = "raised"

\* C4: a get_prices, get_financial_metrics or search_line_items call during
\* which the provider connection could not be opened raises; it does not return.
C4_ConnectFailureRaises ==
    \A p \in Procs : (Done(p) /\ ConnectFailed(p)) => Raised(p)

\* C4 witness: get_prices missed the cache, connect() failed, the call raised
C4_Witness ==
    \E p \in Procs :
        /\ Raised(p) /\ op[p] = "get_prices" /\ ConnectFailed(p) /\ LookedUp(p)

\* an upstream request of the call was answered with a non-OK status
RequestFailed(p) ==
    \E i \in 1..Len(trace[p]) : trace[p][i][1] = "upstream" /\ trace[p][i][3] = "RET_ERROR"

\* C5: a call during which an upstream request (klines, snapshot, statements)
\* came back non-OK after a successful connect raises; it never returns normally.
C5_ProviderFailureSurfaced ==
    \A p \in Procs : (Done(p) /\ RequestFailed(p)) => Raised(p)

\* an upstream context that was opened and not closed
OpenContext(ctx) == Truthy(ctx) /\ ctx.closes = 0

\* C6: when a facade call has ended, whichever way, the provider contexts it
\* opened are closed; and while no call is running no upstream context is open.
C6_ConnectionClosedAtExit ==
    /\ \A p \in Procs : Done(p) => (~OpenContext(futu[p].quote_ctx) /\ ~OpenContext(futu[p].trade_ctx))
    /\ (\A p \in Procs : Quiet(p)) => open_ctx = 0

FetchOps == {"get_history_kline", "get_market_snapshot", "get_financial_data"}

\* C7: a fetch method called on an instance on which connect() has not yet
\* succeeded fails with an error instead of returning a value, and makes no
\* upstream request.
C7_FailFastBeforeConnect ==
    (api_last.op \in FetchOps /\ ~api_connected) => (api_last.ret = "raise" /\ ~api_last.asked)

\* C8: whatever the order of connect / fetch / close calls, close() is invoked at
\* most once on each underlying context, and close() before any connect() does
\* nothing.
C8_CloseAtMostOnce ==
    /\ api.quote_ctx.closes <= 1
    /\ api.trade_ctx.closes <= 1
    /\ (~Truthy(api.quote_ctx) /\ ~Truthy(api.trade_ctx)) => api = FutuAPI

\* C9: translating a ticker twice gives what translating it once gives, and a
\* translation result starts with two market prefixes only if the ticker did.
C9_TranslationIdempotent ==
    /\ sym_n = 2 => sym2 = sym1
    /\ sym_n >= 1 =>
          \/ sym1 = sym
          \/ /\ sym1 = <<"U", "S", ".">> \o sym
             /\ \A pre \in MarketPrefixes : ~StartsWith(sym, pre)

\* C9 witness: a bare ticker got its prefix once and kept it the second time
C9_Witness ==
    /\ sym_n = 2
    /\ sym1 # sym
    /\ sym2 = <<"U", "S", ".">> \o sym

\* C10: get_financial_metrics returns at most limit records, strictly descending
\* by report_period, none later than end_date, from the cache and from a fetch.
C10_MetricsOrdered ==
    \A p \in Procs :
        (Returned(p) /\ op[p] = "get_financial_metrics") =>
            LET r == result[p].value
            IN  /\ Len(r) <= args[p].limit
                /\ \A i \in 1..Len(r) : r[i].report_period <= args[p].end_date
                /\ \A i, j \in 1..Len(r) : i < j => r[i].report_period > r[j].report_period

MostRecent(records) ==
    records[CHOOSE i \in 1..Len(records) :
                \A j \in 1..Len(records) : records[j].report_period <= records[i].report_period]

\* C12: get_market_cap returns the market_cap of the most recent metrics record
\* with report_period <= end_date, and returns null, without raising, when
\* there is no such record or when that market_cap is null or zero (calls
\* during which the provider connected and answered every request).
C12_MarketCapOrNull ==
    \A p \in Procs :
        (Done(p) /\ op[p] = "get_market_cap" /\ ~ConnectFailed(p) /\ ~RequestFailed(p)) =>
            /\ Returned(p)
            /\ result[p].value =
                  IF fetched[p] = <<>> THEN NoValue
                  ELSE IF NotNumber(MostRecent(fetched[p]).market_cap) THEN NoValue
                  ELSE MostRecent(fetched[p]).market_cap

CacheOnlyOps == {"get_insider_trades", "get_company_news"}

\* some stored record of the call's ticker passes the call's date filter
StoredInRange(p) ==
    \/ /\ op[p] = "get_insider_trades"
       /\ \E i \in 1..Len(cached_data[p]) :
            LET trade == cached_data[p][i]
                date == IF trade.transaction_date = NoValue THEN trade.filing_date
                        ELSE trade.transaction_date[1]
            IN  /\ (args[p].start_date = NoValue \/ args[p].start_date[1] <= date)
                /\ date <= args[p].end_date
    \/ /\ op[p] = "get_company_news"
       /\ \E i \in 1..Len(cached_data[p]) :
            /\ (args[p].start_date = NoValue \/ args[p].start_date[1] <= cached_data[p][i].date)
            /\ cached_data[p][i].date <= args[p].end_date

\* C13: get_insider_trades and get_company_news never connect to or query the
\* provider and never write the cache; they always return, and when the cache
\* holds nothing for the ticker, or nothing that passes the date filter, they
\* return an empty sequence.
C13_CacheOnlyNoProvider ==
    /\ [](\A p \in Procs :
            (Done(p) /\ op[p] \in CacheOnlyOps) =>
                /\ Returned(p)
                /\ ~TouchedProvider(p)
                /\ futu[p] = FutuAPI
                /\ open_ctx = 0
                /\ ~StoredInRange(p) => result[p].value = <<>>)
    /\ [][cacheVars' = cacheVars]_vars

\* C13 witness: the store held trades of the ticker, none passed the date
\* filter, and the call returned the empty sequence
C13_Witness ==
    \E p \in Procs :
        /\ Returned(p) /\ op[p] = "get_insider_trades"
        /\ cached_data[p] # <<>> /\ ~StoredInRange(p)
        /\ result[p].value = <<>>

\* the date a trade counts under: its transaction date, else its filing date
TradeDay(trade) ==
    IF trade.transaction_date = NoValue THEN trade.filing_date ELSE trade.transaction_date[1]
\* the trade lies in the call's date range (no lower end without a start_date)
TradeKept(p, trade) ==
    /\ (args[p].start_date = NoValue \/ args[p].start_date[1] <= TradeDay(trade))
    /\ TradeDay(trade) <= args[p].end_date
\* how often x occurs in the sequence
Occurrences(seq, x) == Cardinality({i \in 1..Len(seq) : seq[i] = x})

\* C14: on a cache hit get_insider_trades returns exactly cached trades whose
\* effective date (transaction_date if present, else filing_date) lies in
\* [start_date, end_date], with no lower bound when start_date is absent,
\* ordered descending by that date, at most limit of them, the most recent ones.
C14_InsiderTradesByEffectiveDate ==
    \A p \in Procs :
        (Returned(p) /\ op[p] = "get_insider_trades") =>
            LET r == result[p].value
                cached == cached_data[p]
                kept == {i \in 1..Len(cached) : TradeKept(p, cached[i])}
            IN  /\ Len(r) = IF Cardinality(kept) <= args[p].limit
                            THEN Cardinality(kept) ELSE args[p].limit
                /\ \A i \in 1..Len(r) :
                      /\ TradeKept(p, r[i])
                      /\ Occurrences(r, r[i]) <= Occurrences(cached, r[i])
                /\ \A i, j \in 1..Len(r) : i < j => TradeDay(r[i]) >= TradeDay(r[j])
                /\ \A k \in kept :
                      Occurrences(r, cached[k]) < Occurrences(cached, cached[k]) =>
                          \A i \in 1..Len(r) : TradeDay(r[i]) >= TradeDay(cached[k])

\* C14 witness: of two stored trades in range the limit let through the later
\* one, which is later only by its transaction date
C14_Witness ==
    \E p \in Procs :
        /\ Returned(p) /\ op[p] = "get_insider_trades"
        /\ Len(cached_data[p]) = 2 /\ args[p].limit = 1
        /\ TradeKept(p, cached_data[p][1]) /\ TradeKept(p, cached_data[p][2])
        /\ result[p].value = <<cached_data[p][2]>>
        /\ cached_data[p][2].transaction_date # NoValue
        /\ cached_data[p][2].filing_date <= cached_data[p][1].filing_date
        /\ TradeDay(cached_data[p][2]) > TradeDay(cached_data[p][1])

\* the statement kind of each field name that has one
StatementKindOf ==
    [f \in {"revenue", "gross_profit", "operating_income", "net_income", "total_assets",
            "total_liabilities", "total_equity", "current_assets", "operating_cash_flow",
            "free_cash_flow"} |->
        IF f \in {"revenue", "gross_profit", "operating_income", "net_income"} THEN "income"
        ELSE IF f \in {"operating_cash_flow", "free_cash_flow"} THEN "cashflow"
        ELSE "balance"]
\* the statement kinds the call has asked the provider adapter for
KindsFetched(p) ==
    {trace[p][i][3] : i \in {j \in 1..Len(trace[p]) :
        trace[p][j][1] = "futu" /\ trace[p][j][2] = "get_financial_data"}}

\* C15: search_line_items fetches from the provider the statement kinds that
\* the fixed mapping gives the requested field names, each once, and no other
\* kind: asking for income fields only fetches neither balance nor cashflow.
C15_FetchesMappedKindsOnly ==
    \A p \in Procs :
        (op[p] = "search_line_items") =>
            LET wanted == {StatementKindOf[f] :
                              f \in Range(args[p].line_items) \cap DOMAIN StatementKindOf}
            IN  /\ KindsFetched(p) \subseteq wanted
                /\ Returned(p) =>
                      /\ KindsFetched(p) = wanted
                      /\ \A k \in wanted :
                            Cardinality({i \in 1..Len(trace[p]) :
                                trace[p][i] = <<"futu", "get_financial_data", k>>}) = 1

\* C15 witness: a request for revenue alone fetched the income statement only
C15_Witness ==
    \E p \in Procs :
        /\ Returned(p) /\ op[p] = "search_line_items"
        /\ args[p].line_items = <<"revenue">>
        /\ KindsFetched(p) = {"income"}
        /\ result[p].value # <<>>

\* C16: every LineItem carries only requested field names that its raw row
\* holds: a requested field the row lacks is absent from the LineItem, not
\* present with a null value, and no field that was not requested is populated.
C16_LineItemFieldsPresentOnly ==
    \A p \in Procs :
        (Returned(p) /\ op[p] = "search_line_items") =>
            \A i \in 1..Len(result[p].value) :
                \A f \in DOMAIN result[p].value[i].fields :
                    /\ f \in Range(args[p].line_items)
                    /\ result[p].value[i].fields[f] # NoValue

\* the income row of the join, the record built for it, whether a statement has
\* a row of the income row's report date
JoinItem == jn_rows.financial_data[1]
JoinRecord == jn_out[1]
HasRowOfDate(data) == \E i \in 1..Len(data) : data[i].report_date = JoinItem.report_date
\* the record's field is numerator / revenue when the income row has both and
\* the revenue is not zero, else null
MarginIs(field, numerator) ==
    IF {numerator, "revenue"} \subseteq DOMAIN JoinItem /\ JoinItem.revenue # 0
    THEN /\ JoinRecord[field] # NoValue
         /\ JoinRecord[field][1].den > 0
         /\ JoinRecord[field][1].num * JoinItem.revenue
                = JoinItem[numerator] * JoinRecord[field][1].den
    ELSE JoinRecord[field] = NoValue

\* C17: when the balance statement has no row of an income row's report date,
\* the record of that income row is still built, every balance-derived ratio
\* in it is null and the margins are computed from the income row; likewise
\* every cashflow-derived field is null when the cashflow row is missing.
C17_JoinCompleteness ==
    jn_out # <<>> =>
        /\ Len(jn_out) = 1 /\ JoinRecord.report_period = JoinItem.report_date
        /\ ~HasRowOfDate(jn_rows.balance_data) =>
              /\ \A f \in {"return_on_equity", "return_on_assets", "asset_turnover",
                            "current_ratio", "quick_ratio", "cash_ratio",
                            "operating_cash_flow_ratio", "debt_to_equity", "debt_to_assets"} :
                    JoinRecord[f] = NoValue
              /\ MarginIs("gross_margin", "gross_profit")
              /\ MarginIs("operating_margin", "operating_income")
              /\ MarginIs("net_margin", "net_income")
        /\ ~HasRowOfDate(jn_rows.cashflow_data) =>
              /\ \A f \in {"free_cash_flow_yield", "operating_cash_flow_ratio",
                            "free_cash_flow_per_share"} :
                    JoinRecord[f] = NoValue
              /\ MarginIs("gross_margin", "gross_profit")
              /\ MarginIs("operating_margin", "operating_income")
              /\ MarginIs("net_margin", "net_income")

\* C17 witness: the balance statement has rows but none of the income row's
\* date; the record has a gross margin and, from the matching cashflow row, a
\* free cash flow yield, and no current ratio
C17_Witness ==
    /\ jn_out # <<>>
    /\ jn_rows.balance_data # <<>> /\ ~HasRowOfDate(jn_rows.balance_data)
    /\ "current_assets" \in DOMAIN jn_rows.balance_data[1]
    /\ jn_rows.balance_data[1].current_liabilities # 0
    /\ JoinRecord.gross_margin # NoValue
    /\ JoinRecord.free_cash_flow_yield # NoValue
    /\ JoinRecord.current_ratio = NoValue

\* C18: safe_divide(a, b) returns null exactly when a is null, b is null or b
\* is zero, and a / b otherwise; a zero numerator over a non-zero denominator
\* gives 0, not null.
C18_SafeDivide ==
    sd_n = 1 =>
        /\ sd_ret = NoValue <=> (sd_a = NoValue \/ sd_b = NoValue \/ sd_b = <<0>>)
        /\ sd_ret # NoValue =>
              /\ sd_ret[1].den > 0
              /\ sd_ret[1].num * sd_b[1] = sd_a[1] * sd_ret[1].den
        /\ (sd_a = <<0>> /\ sd_b # NoValue /\ sd_b # <<0>>) => sd_ret = <<[num |-> 0, den |-> 1]>>

\* C18 witness: zero divided by a negative number came back as 0
C18_Witness ==
    /\ sd_n = 1
    /\ sd_a = <<0>> /\ sd_b = <<-MaxVal>>
    /\ sd_ret # NoValue /\ sd_ret[1].num = 0

\* the call's cache lookup raised
CacheReadFailed(p) ==
    \E i \in 1..Len(trace[p]) : trace[p][i][1] = "cache" /\ trace[p][i][3] = "raised"
\* the conversion of a fetched row raised
NormalizationFailed(p) ==
    \E i \in 1..Len(trace[p]) : trace[p][i][1] = "convert" /\ trace[p][i][3] = "raised"

\* C19: a get_prices or get_financial_metrics call whose cache lookup raises
\* treats the data as absent and goes on to the provider fetch; the error of
\* the cache does not reach the caller.
C19_CacheReadFailureIsMiss ==
    \A p \in Procs :
        (Done(p) /\ op[p] \in {"get_prices", "get_financial_metrics"} /\ CacheReadFailed(p)) =>
            /\ TouchedProvider(p)
            /\ Raised(p) => (ConnectFailed(p) \/ NormalizationFailed(p))

\* C20: a get_prices, get_financial_metrics or search_line_items call during
\* which the provider failed (connect or request) or a row could not be
\* normalized raises, returns no records and has written nothing to the cache.
C20_AllOrNothing ==
    \A p \in Procs :
        (/\ Done(p)
         /\ op[p] \in {"get_prices", "get_financial_metrics", "search_line_items"}
         /\ (ConnectFailed(p) \/ RequestFailed(p) \/ NormalizationFailed(p))) =>
            /\ Raised(p)
            /\ result[p].value = <<>>
            /\ ~WroteBack(trace[p])

\* C21: for every limit >= 0 search_line_items returns at most limit LineItems,
\* counted over all fetched statement kinds together, none of a report period
\* after end_date.
C21_LineItemLimit ==
    \A p \in Procs :
        (Returned(p) /\ op[p] = "search_line_items") =>
            /\ Len(result[p].value) <= args[p].limit
            /\ \A i \in 1..Len(result[p].value) :
                  result[p].value[i].report_period <= args[p].end_date

\* the step in which the call of p writes its fetch back and returns
WriteStep(p) == pc[p] \in {"gp_write", "fm_write"} /\ pc'[p] = "done"
\* both threads have finished a call of the same function for the same ticker,
\* and both calls missed the cache, fetched and wrote back
BothWroteBack ==
    /\ \A p \in Procs : Returned(p) /\ WroteBack(trace[p])
    /\ op[1] = op[2]
    /\ args[1].ticker = args[2].ticker

\* C22: two interleaved get_prices (or get_financial_metrics) calls for one
\* ticker may both miss and both fetch; each write replaces the ticker's cached
\* set by exactly the writer's complete fetch, nothing else changes the cache,
\* so after both the cache holds the set of one of the two calls, never a
\* mixture, and each call returns its own complete fetch.
C22_LastWriterWins ==
    /\ [](/\ \A p \in Procs :
              (Returned(p) /\ WroteBack(trace[p])) =>
                  (result[p].value = fetched[p] /\ fetched[p] # <<>>)
          /\ BothWroteBack => CacheOf(1) \in {result[1].value, result[2].value})
    /\ [][/\ \A p \in Procs :
              WriteStep(p) =>
                  /\ result'[p] = [kind |-> "return", value |-> fetched[p]]
                  /\ (IF op[p] = "get_prices" THEN prices_cache'
                      ELSE financial_metrics_cache')[args[p].ticker] = fetched[p]
          /\ (cacheVars' # cacheVars) => \E p \in Procs : WriteStep(p)]_vars

\* C22 witness: both threads looked into the empty cache, both fetched, the two
\* fetches differ, and the cache holds the set of the second thread alone
C22_Witness ==
    /\ BothWroteBack
    /\ op[1] = "get_prices"
    /\ cached_data[1] = <<>> /\ cached_data[2] = <<>>
    /\ Len(result[1].value) > Len(result[2].value)
    /\ CacheOf(2) = result[2].value

\* C23: every record a get_financial_metrics call returns carries the period
\* tag the call asked for, also when the records come from a cache that an
\* earlier call with another period has filled.
C23_PeriodTagConsistent ==
    \A p \in Procs :
        (Returned(p) /\ op[p] = "get_financial_metrics") =>
            \A i \in 1..Len(result[p].value) : result[p].value[i].period = args[p].period

\* C24: whenever connect() has returned False no provider context is left
\* open: not on the instance it was called on, and not on the instance of a
\* facade call that has ended because of it.
C24_NoHalfOpenConnection ==
    /\ (api_last.op = "connect" /\ api_last.ret = "False") =>
          (~OpenContext(api.quote_ctx) /\ ~OpenContext(api.trade_ctx))
    /\ \A p \in Procs :
          (Done(p) /\ ConnectFailed(p)) =>
              (~OpenContext(futu[p].quote_ctx) /\ ~OpenContext(futu[p].trade_ctx))

\* the positions in the call's trace at which get_financial_data was called
\* and went on to make its upstream request
StatementRequests(p) ==
    {i \in 1..(Len(trace[p]) - 1) :
        /\ trace[p][i][1] = "futu" /\ trace[p][i][2] = "get_financial_data"
        /\ trace[p][i + 1][1] = "upstream"}

\* C25: get_financial_data(code, kind) lets the kind decide what it requests
\* upstream: within a call, the upstream requests made for two different
\* statement kinds of the same code differ.
C25_KindSelectsRequest ==
    \A p \in Procs :
        \A i, j \in StatementRequests(p) :
            trace[p][i][3] # trace[p][j][3] => trace[p][i + 1][2] # trace[p][j + 1][2]

====
